---------------------------- MODULE Spec2Model ----------------------------
(***************************************************************************)
(* CV-dashboard: the APE metrics dashboard (app.py) and the offline        *)
(* PDF -> PNG converter (convert_pdfs_to_pngs.py).                         *)
(*                                                                         *)
(* Python strings are sequences of one-character strings, so that split,   *)
(* basename, the substring test, case folding and the regular-expression   *)
(* search are computed character by character.  JSON values are tagged     *)
(* records; a JSON object is a function from its keys to JSON values.      *)
(***************************************************************************)
EXTENDS Integers, Sequences, FiniteSets, TLC

VARIABLES
    data,        \* app.py: the parsed ape_results.json
    pc,          \* app.py: position of the script run
    err,         \* app.py: the exception that ended the run, or "none"
    raised_at,   \* app.py: the step that raised, or "none"
    records,     \* app.py: the list built by the extraction loop
    heap,        \* app.py: the DataFrame objects allocated by the run
    env,         \* app.py: script variable -> DataFrame object (0: unbound)
    base,        \* the value of df right after it was built (history)
    widgets,     \* app.py: what the sidebar widgets offered and returned
    summary_df,  \* app.py: the per-algorithm mean RMSE rows
    range_y,     \* app.py: the bar chart's y range
    rmse_max,    \* app.py: filtered["RMSE"].max()
    rmse_min,    \* app.py: filtered["RMSE"].min()
    cpc,         \* converter: position of the conversion loop
    plots,       \* converter: file name -> what converting it does
    pending,     \* converter: files glob has not yielded yet
    attempts,    \* converter: file name -> number of conversion attempts
    previews,    \* converter: the files of plots_previews/
    previews0,   \* the files of plots_previews/ before the run (history)
    log          \* converter: the printed lines, as a sequence

appVars == <<data, pc, err, raised_at, records, heap, env, base, widgets,
             summary_df, range_y, rmse_max, rmse_min>>
convVars == <<cpc, plots, pending, attempts, previews, previews0, log>>
vars == <<appVars, convVars>>

---------------------------------------------------------------------------
(* Bounds *)

\* Longest input JSON array.
MaxEntries == 2
\* Most PDF files in plots/.
MaxPdfs == 3

---------------------------------------------------------------------------
(* Strings *)

s_empty == <<>>
s_groundTruth == <<"g","r","o","u","n","d","T","r","u","t","h">>
s_ALL == <<"A","l","l"," ","a","l","g","o","r","i","t","h","m","s">>
s_mp4_verylow == <<"m","p","4","_","v","e","r","y","l","o","w">>
s_mp4_low == <<"m","p","4","_","l","o","w">>
s_mp4_mid == <<"m","p","4","_","m","i","d">>
s_mp4_medium == <<"m","p","4","_","m","e","d","i","u","m">>
s_mp4_high == <<"m","p","4","_","h","i","g","h">>
s_png == <<".","p","n","g">>

\* The characters of the model in code point order.
AsciiOrder ==
    <<" ", "(", ".", "/", "0", "1", "2", "3", "4", "5", "6", "7", "8", "9",
      "A", "B", "C", "D", "E", "F", "G", "H", "I", "J", "K", "L", "M", "N",
      "O", "P", "Q", "R", "S", "T", "U", "V", "W", "X", "Y", "Z", "_",
      "a", "b", "c", "d", "e", "f", "g", "h", "i", "j", "k", "l", "m", "n",
      "o", "p", "q", "r", "s", "t", "u", "v", "w", "x", "y", "z">>

\* Python's ord, up to the order it gives.
OrdTable ==
    [c \in { AsciiOrder[i] : i \in 1..Len(AsciiOrder) } |->
       CHOOSE i \in 1..Len(AsciiOrder) : AsciiOrder[i] = c]

Ord(c) == OrdTable[c]

UpperLetters ==
    <<"A", "B", "C", "D", "E", "F", "G", "H", "I", "J", "K", "L", "M", "N",
      "O", "P", "Q", "R", "S", "T", "U", "V", "W", "X", "Y", "Z">>
LowerLetters ==
    <<"a", "b", "c", "d", "e", "f", "g", "h", "i", "j", "k", "l", "m", "n",
      "o", "p", "q", "r", "s", "t", "u", "v", "w", "x", "y", "z">>

LowerTable ==
    [c \in { AsciiOrder[i] : i \in 1..Len(AsciiOrder) } |->
       IF \E i \in 1..Len(UpperLetters) : UpperLetters[i] = c
       THEN LowerLetters[CHOOSE i \in 1..Len(UpperLetters) : UpperLetters[i] = c]
       ELSE c]

\* Case folding of one character.
Lower(c) == LowerTable[c]

\* Python's str < str: code point order, a proper prefix first.
StrLess(a, b) ==
    \E i \in 1..(Len(b)) :
        /\ \A j \in 1..(i - 1) : j <= Len(a) /\ a[j] = b[j]
        /\ Len(a) >= i - 1
        /\ \/ Len(a) = i - 1
           \/ Len(a) >= i /\ Ord(a[i]) < Ord(b[i])

\* Python's `sub in s`.
Contains(s, sub) ==
    \E i \in 0..(Len(s) - Len(sub)) :
        \A j \in 1..Len(sub) : s[i + j] = sub[j]

\* Index of the first occurrence of character c in s at or after from, 0 if none.
RECURSIVE FindChar(_, _, _)
FindChar(s, c, from) ==
    IF from > Len(s) THEN 0
    ELSE IF s[from] = c THEN from
    ELSE FindChar(s, c, from + 1)

\* Python's s.split(sep) for a one-character sep: always at least one part.
RECURSIVE Split(_, _)
Split(s, sep) ==
    LET i == FindChar(s, sep, 1)
    IN  IF i = 0 THEN <<s>>
        ELSE <<SubSeq(s, 1, i - 1)>> \o Split(SubSeq(s, i + 1, Len(s)), sep)

\* Index of the last '/' of s, 0 if none.
RECURSIVE LastSlash(_, _)
LastSlash(s, i) ==
    IF i = 0 THEN 0
    ELSE IF s[i] = "/" THEN i
    ELSE LastSlash(s, i - 1)

\* os.path.basename (posixpath): what follows the last '/'.
Basename(s) == SubSeq(s, LastSlash(s, Len(s)) + 1, Len(s))

---------------------------------------------------------------------------
(* JSON values and Python objects *)

Str(s) == [k |-> "str", s |-> s]
Num(n) == [k |-> "num", n |-> n]
Null == [k |-> "null"]
\* A float NaN: pandas' missing number, missing category, maximum or mean of nothing.
NaN == [k |-> "nan"]
Obj(f) == [k |-> "obj", f |-> f]

IsStr(v) == v.k = "str"
IsNum(v) == v.k = "num"
IsNull(v) == v.k = "null"
\* pandas' isna: None or NaN.
IsNA(v) == v.k \in {"null", "nan"}
IsObj(v) == v.k = "obj"

\* dict.get(key, default)
Get(entry, key, default) ==
    IF key \in DOMAIN entry.f THEN entry.f[key] ELSE default

StatFields == <<"rmse", "mean", "median", "std", "min", "max">>
StatColumns == <<"RMSE", "Mean", "Median", "Std", "Min", "Max">>


---------------------------------------------------------------------------
(* The inputs: entries of ape_results.json *)

s_A1 == <<"A", "1">>
s_B2 == <<"B", "2">>
s_NGT == <<"N", "_">> \o s_groundTruth
s_rel_low == <<"N", "/">> \o s_mp4_low \o <<"/", "x">>
s_rel_high == <<"N", "/">> \o s_mp4_high
s_rel_Slow == <<"S", "/">> \o s_mp4_low
s_rel_Smid == <<"S", "/">> \o s_mp4_mid
s_rel_raw == <<"N", "/", "r", "a", "w", "/", "x">>
s_rel_one == <<"N">>
s_v1 == <<"v", "1">>
s_V2 == <<"V", "2">>
s_plot_a == <<"p", "l", "o", "t", "s", "/", "a", ".", "p", "d", "f">>
s_plot_b == <<"b", ".", "p", "d", "f">>

Fields(alg, rel, folder, plot) ==
    ("algorithm" :> alg) @@ ("algorithm_relative_folder" :> rel)
        @@ ("folder" :> folder) @@ ("plot_path" :> plot)

AllStats(n) ==
    ("rmse" :> Num(n)) @@ ("mean" :> Num(n)) @@ ("median" :> Num(n))
        @@ ("std" :> Num(n)) @@ ("min" :> Num(n)) @@ ("max" :> Num(n))

\* Entries that yield a record.
GoodEntries ==
    { Obj(Fields(Str(s_A1), Str(s_rel_low), Str(s_v1), Str(s_plot_a)) @@ AllStats(2)),
      Obj(Fields(Str(s_B2), Str(s_rel_high), Str(s_V2), Str(s_plot_b))
            @@ ("rmse" :> Num(1))),
      Obj(Fields(Str(s_B2), Str(s_rel_Slow), Str(s_v1), Str(s_plot_b))
            @@ ("rmse" :> Null) @@ ("max" :> Num(2))),
      \* a secondary tag outside subtag_order
      Obj(Fields(Str(s_A1), Str(s_rel_raw), Str(s_V2), Str(s_plot_a))
            @@ ("rmse" :> Num(3))),
      \* no algorithm, no folder, no plot_path, no statistics
      Obj("algorithm_relative_folder" :> Str(s_rel_Smid)) }

\* Entries the loop skips.
SkippedEntries ==
    { Obj(Fields(Str(s_NGT), Str(s_rel_low), Str(s_v1), Str(s_plot_a)) @@ AllStats(1)),
      Obj(Fields(Str(s_groundTruth), Null, Str(s_v1), Null)),
      Obj(Fields(Str(s_A1), Str(s_rel_one), Str(s_v1), Str(s_plot_a)) @@ AllStats(1)),
      Obj(Fields(Str(s_B2), Str(s_empty), Str(s_v1), Str(s_plot_a))),
      Obj(("algorithm" :> Str(s_A1)) @@ ("rmse" :> Num(1))) }

\* Malformed entries: a null or non-string field, an element that is no object.
MalformedEntries ==
    { Obj(Fields(Null, Str(s_rel_low), Str(s_v1), Str(s_plot_a)) @@ AllStats(1)),
      Obj(Fields(Str(s_A1), Null, Str(s_v1), Str(s_plot_a))),
      Obj(Fields(Str(s_A1), Str(s_rel_one), Str(s_v1), Null)),
      Obj(Fields(Num(1), Str(s_rel_low), Str(s_v1), Str(s_plot_a))),
      Num(1) }

Entries == GoodEntries \cup SkippedEntries \cup MalformedEntries

\* Every JSON array of at most MaxEntries entries.
Inputs == UNION { [1..n -> Entries] : n \in 0..MaxEntries }

---------------------------------------------------------------------------
(* app.py: record extraction, lines 14-42 *)

\* A test for the exact name instead of the substring.
IsGroundTruthExact(algo) == algo = s_groundTruth

\* `"groundTruth" in algo` for a string algo.
IsGroundTruth(algo) == Contains(algo, s_groundTruth)

\* A default of zero instead of None.
GetStatZero(entry, field) == Get(entry, field, Num(0))

\* entry.get(field, None) of one statistic.
GetStat(entry, field) == Get(entry, field, Null)

\* The dict appended to records.
MakeRecord(algo, tag1, tag2, folder, entry, plot_path) ==
    ("Algorithm" :> Str(algo)) @@ ("Tag" :> Str(tag1)) @@ ("Subtag" :> Str(tag2))
        @@ ("Video" :> folder)
        @@ ("RMSE" :> GetStat(entry, "rmse")) @@ ("Mean" :> GetStat(entry, "mean"))
        @@ ("Median" :> GetStat(entry, "median")) @@ ("Std" :> GetStat(entry, "std"))
        @@ ("Min" :> GetStat(entry, "min")) @@ ("Max" :> GetStat(entry, "max"))
        @@ ("Plot PDF" :> Str(plot_path))

Raise(e) == [out |-> "raise", err |-> e]
Skip == [out |-> "skip"]
Emit(r) == [out |-> "record", rec |-> r]

\* One iteration of the loop body, statement by statement.
ExtractEntry(entry) ==
    IF ~IsObj(entry) THEN Raise("AttributeError")              \* entry.get
    ELSE LET algo == Get(entry, "algorithm", Str(s_empty))
         IN  IF ~IsStr(algo) THEN Raise("TypeError")           \* "groundTruth" in algo
             ELSE IF IsGroundTruth(algo.s) THEN Skip
             ELSE LET rel_path == Get(entry, "algorithm_relative_folder", Str(s_empty))
                      folder == Get(entry, "folder", Str(s_empty))
                      plot == Get(entry, "plot_path", Str(s_empty))
                  IN  IF ~IsStr(plot) THEN Raise("TypeError")  \* os.path.basename
                      ELSE IF ~IsStr(rel_path) THEN Raise("AttributeError")  \* .split
                      ELSE LET parts == Split(rel_path.s, "/")
                           IN  IF Len(parts) < 2 THEN Skip
                               ELSE Emit(MakeRecord(algo.s, parts[1], parts[2], folder,
                                                    entry, Basename(plot.s)))

\* The loop: an exception ends the script, the records built so far are lost
\* with it.
RECURSIVE ExtractLoop(_, _, _)
ExtractLoop(d, i, recs) ==
    IF i > Len(d) THEN [err |-> "none", records |-> recs]
    ELSE LET r == ExtractEntry(d[i])
         IN  IF r.out = "raise" THEN [err |-> r.err, records |-> recs]
             ELSE ExtractLoop(d, i + 1,
                              IF r.out = "record" THEN Append(recs, r.rec) ELSE recs)

---------------------------------------------------------------------------
(* DataFrames *)

RecordColumns ==
    <<"Algorithm", "Tag", "Subtag", "Video", "RMSE", "Mean", "Median", "Std",
      "Min", "Max", "Plot PDF">>

SeqToSet(s) == { s[i] : i \in 1..Len(s) }

\* pd.DataFrame(list of dicts): no dict, no column.  A column that holds a
\* number is a float column, whose None values are NaN; a column of None only
\* stays a column of None.
DataFrame(recs) ==
    LET numeric == { c \in SeqToSet(StatColumns) :
                       \E i \in 1..Len(recs) : IsNum(recs[i][c]) }
    IN  [cols |-> IF recs = <<>> THEN <<>> ELSE RecordColumns,
         rows |-> [i \in 1..Len(recs) |->
                     [c \in DOMAIN recs[i] |->
                        IF c \in numeric /\ IsNull(recs[i][c]) THEN NaN
                        ELSE recs[i][c]]]]

subtag_order == <<s_mp4_verylow, s_mp4_low, s_mp4_mid, s_mp4_medium, s_mp4_high>>

\* pd.Categorical(values, categories=subtag_order, ordered=True): a value that
\* is no category becomes NaN.
Categorical(values) ==
    [i \in 1..Len(values) |->
       IF IsStr(values[i]) /\ values[i].s \in SeqToSet(subtag_order)
       THEN values[i] ELSE NaN]

\* frame[column]: the Series of the column's values.
Column(frame, column) == [i \in 1..Len(frame.rows) |-> frame.rows[i][column]]

\* frame[column] = values; a new column goes last.
SetColumn(frame, column, values) ==
    [cols |-> IF column \in SeqToSet(frame.cols) THEN frame.cols
              ELSE Append(frame.cols, column),
     rows |-> [i \in 1..Len(frame.rows) |-> (column :> values[i]) @@ frame.rows[i]]]

\* frame[mask]: the rows whose mask value is True, in order.
Mask(frame, mask) ==
    LET kept == SelectSeq([i \in 1..Len(frame.rows) |-> i], LAMBDA i : mask[i])
    IN  [cols |-> frame.cols, rows |-> [j \in 1..Len(kept) |-> frame.rows[kept[j]]]]

\* Series.isin(values): NaN is in no list of subtags or tags.
IsIn(series, values) ==
    [i \in 1..Len(series) |-> ~IsNA(series[i]) /\ series[i].s \in values]

\* Series == value
Equals(series, value) == [i \in 1..Len(series) |-> series[i] = value]

\* frame.drop(columns=[column])
Drop(frame, column) ==
    [cols |-> SelectSeq(frame.cols, LAMBDA c : c # column),
     rows |-> [i \in 1..Len(frame.rows) |->
                 [c \in (DOMAIN frame.rows[i]) \ {column} |-> frame.rows[i][c]]]]

\* Series.dropna()
DropNA(series) == SelectSeq(series, LAMBDA v : ~IsNA(v))

\* The Python strings of a Series of strings.
Strings(series) == [i \in 1..Len(series) |-> series[i].s]

\* The distinct values of a sequence, in order of first appearance.
RECURSIVE Unique(_)
Unique(s) ==
    IF s = <<>> THEN <<>>
    ELSE LET u == Unique(SubSeq(s, 1, Len(s) - 1))
         IN  IF s[Len(s)] \in SeqToSet(u) THEN u ELSE Append(u, s[Len(s)])

\* A mean, or a maximum times 1.1: the fraction num/den.
Rat(num, den) == [k |-> "rat", num |-> num, den |-> den]

Numer(v) == IF v.k = "rat" THEN v.num ELSE v.n
Denom(v) == IF v.k = "rat" THEN v.den ELSE 1

\* The order of one sort column: strings by code point, numbers by value,
\* NaN and None after every value (na_position="last").
ValueLess(a, b) ==
    IF IsNA(a) THEN FALSE
    ELSE IF IsNA(b) THEN TRUE
    ELSE IF IsStr(a) THEN StrLess(a.s, b.s)
    ELSE Numer(a) * Denom(b) < Numer(b) * Denom(a)

\* The order of the rows of a sort on several columns: k1 and k2 are the rows'
\* values of the columns of `by`, in order.
KeyLess(k1, k2) ==
    \E i \in 1..Len(k1) :
        /\ \A j \in 1..(i - 1) : ~ValueLess(k1[j], k2[j]) /\ ~ValueLess(k2[j], k1[j])
        /\ ValueLess(k1[i], k2[i])

\* Insertion of index x into the indices s sorted by their keys, after its
\* equals.
RECURSIVE InsertIdx(_, _, _)
InsertIdx(s, x, keys) ==
    IF s = <<>> THEN <<x>>
    ELSE IF KeyLess(keys[x], keys[Head(s)]) THEN <<x>> \o s
    ELSE <<Head(s)>> \o InsertIdx(Tail(s), x, keys)

\* The indices 1..n ordered by their keys; equal keys keep their order (numpy
\* sorts arrays this short by insertion).
RECURSIVE SortIdx(_, _)
SortIdx(n, keys) ==
    IF n = 0 THEN <<>> ELSE InsertIdx(SortIdx(n - 1, keys), n, keys)

\* rows.sort_values(by=...), keys[i] the sort key of rows[i].
SortRows(rows, keys) ==
    LET p == SortIdx(Len(rows), keys)
    IN  [i \in 1..Len(rows) |-> rows[p[i]]]

SortValues(frame, by) ==
    [cols |-> frame.cols,
     rows |-> SortRows(frame.rows,
                       [i \in 1..Len(frame.rows) |->
                          [j \in 1..Len(by) |-> frame.rows[i][by[j]]]])]

---------------------------------------------------------------------------
(* Series helpers *)

\* Series.str.contains(pat, case=False, na=False): pat is a regular
\* expression.  Of the patterns of the model, a '(' does not compile, a '.'
\* matches any character and every other character matches itself, whatever
\* its case.
RegexCompiles(pat) == "(" \notin SeqToSet(pat)

RegexSearch(pat, s) ==
    \E i \in 0..(Len(s) - Len(pat)) :
        \A j \in 1..Len(pat) : pat[j] = "." \/ Lower(pat[j]) = Lower(s[i + j])

StrContains(series, pat) ==
    [i \in 1..Len(series) |-> IsStr(series[i]) /\ RegexSearch(pat, series[i].s)]

\* mask | mask
Either(m1, m2) == [i \in 1..Len(m1) |-> m1[i] \/ m2[i]]

\* Sum of the values of the rows' column that are not NA, and their number.
RECURSIVE SumOf(_, _)
SumOf(rows, column) ==
    IF rows = <<>> THEN 0
    ELSE (IF IsNA(Head(rows)[column]) THEN 0 ELSE Head(rows)[column].n)
            + SumOf(Tail(rows), column)

CountOf(rows, column) == Len(SelectSeq(rows, LAMBDA r : ~IsNA(r[column])))

\* A mean that counts the NA values as zeros.
MeanCountingNA(rows, column) ==
    IF rows = <<>> THEN NaN ELSE Rat(SumOf(rows, column), Len(rows))

\* Series.mean(): NA values are skipped; NaN when nothing is left.
MeanOf(rows, column) ==
    IF CountOf(rows, column) = 0 THEN NaN
    ELSE Rat(SumOf(rows, column), CountOf(rows, column))

\* Series.max() and Series.min(): NA values are skipped; NaN when nothing is left.
RECURSIVE MaxOf(_, _)
MaxOf(rows, column) ==
    IF rows = <<>> THEN NaN
    ELSE LET m == MaxOf(Tail(rows), column)
             v == Head(rows)[column]
         IN  IF IsNA(v) THEN m
             ELSE IF IsNA(m) THEN v
             ELSE IF m.n > v.n THEN m ELSE v

RECURSIVE MinOf(_, _)
MinOf(rows, column) ==
    IF rows = <<>> THEN NaN
    ELSE LET m == MinOf(Tail(rows), column)
             v == Head(rows)[column]
         IN  IF IsNA(v) THEN m
             ELSE IF IsNA(m) THEN v
             ELSE IF m.n < v.n THEN m ELSE v

\* sorted(strings)
SortedStrings(s) ==
    LET u == [i \in 1..Len(s) |-> <<Str(s[i])>>]
        q == SortIdx(Len(s), u)
    IN  [i \in 1..Len(s) |-> s[q[i]]]

\* filtered.groupby("Algorithm")["RMSE"].mean().reset_index().sort_values(by="RMSE"):
\* the groups come in the order of their names, then are sorted by their mean.
GroupMeans(rows) ==
    LET names == SortedStrings(Unique([i \in 1..Len(rows) |-> rows[i]["Algorithm"].s]))
    IN  [i \in 1..Len(names) |->
           ("Algorithm" :> Str(names[i]))
             @@ ("RMSE" :> MeanOf(SelectSeq(rows,
                                   LAMBDA r : r["Algorithm"].s = names[i]), "RMSE"))]

Summary(rows) ==
    LET g == GroupMeans(rows)
    IN  SortRows(g, [i \in 1..Len(g) |-> <<g[i]["RMSE"]>>])

---------------------------------------------------------------------------
(* app.py: the script run.  Streamlit runs the script from its first line on
   every interaction; a widget call returns the value the user has set. *)

EnvVars ==
    {"df", "algo_df", "filtered", "ordered_df", "sorted_df", "display_df", "preview_df"}

NoFrame == [cols |-> <<>>, rows |-> <<>>]

NoWidgets ==
    [algorithm_options |-> <<>>, selected_algorithm |-> <<>>,
     tag_options |-> <<>>, selected_tags |-> {},
     available_subtags |-> <<>>, selected_subtags |-> {},
     video_search |-> <<>>, search_text |-> <<>>]

NoRange == [m \in SeqToSet(StatColumns) |-> Null]

\* What the user may type into the video search box of the sidebar.
Searches == { s_empty, <<"v", "2">>, <<".">>, <<"(">> }

\* What the user may type into the search box of the previews.
PreviewSearches == { s_empty, <<"A", "1">>, <<"(">> }

\* What plots_previews/ may hold when the script looks.
s_preview_a == <<"a", ".", "p", "d", "f">> \o s_png
PreviewDirs == { {}, {s_preview_a} }

\* The frame a script variable is bound to.
Frame(v) == IF env[v] = 0 THEN NoFrame ELSE heap[env[v]]

\* A new DataFrame object: the heap with it, and its reference.
New(h, frame) == [heap |-> Append(h, frame), ref |-> Len(h) + 1]

\* A second name for the same object instead of a copy.
CopyAliased(h, ref) == [heap |-> h, ref |-> ref]

\* DataFrame.copy(): a new object with the same columns and rows.
Copy(h, ref) == New(h, h[ref])

\* frame[column] = values, in place.
Assign(h, ref, column, values) ==
    [h EXCEPT ![ref] = SetColumn(h[ref], column, values)]

appIdle ==
    /\ pc = "idle" /\ err = "none" /\ raised_at = "none" /\ data = <<>>
    /\ records = <<>> /\ heap = <<>> /\ env = [v \in EnvVars |-> 0]
    /\ base = NoFrame /\ widgets = NoWidgets /\ summary_df = <<>>
    /\ range_y = NoRange /\ rmse_max = NaN /\ rmse_min = NaN

convIdle ==
    /\ cpc = "idle" /\ plots = <<>> /\ pending = {} /\ attempts = <<>>
    /\ previews = {} /\ previews0 = {} /\ log = <<>>

Init ==
    /\ data \in Inputs
    /\ pc = "extract" /\ err = "none" /\ raised_at = "none"
    /\ records = <<>> /\ heap = <<>> /\ env = [v \in EnvVars |-> 0]
    /\ base = NoFrame /\ widgets = NoWidgets /\ summary_df = <<>>
    /\ range_y = NoRange /\ rmse_max = NaN /\ rmse_min = NaN
    /\ convIdle

RaiseAt(step, e) ==
    /\ pc' = "raised"
    /\ err' = e
    /\ raised_at' = step

\* Lines 14-42.
Extract ==
    /\ pc = "extract"
    /\ LET r == ExtractLoop(data, 1, <<>>)
       IN  /\ records' = r.records
           /\ IF r.err = "none"
              THEN pc' = "build" /\ UNCHANGED <<err, raised_at>>
              ELSE RaiseAt("extract", r.err)
    /\ UNCHANGED <<data, heap, env, base, widgets, summary_df, range_y,
                   rmse_max, rmse_min, convVars>>

\* Lines 45-49: df["Subtag"] of a frame with no column is a KeyError.
BuildTable ==
    /\ pc = "build"
    /\ LET df0 == DataFrame(records)
       IN  IF "Subtag" \notin SeqToSet(df0.cols)
           THEN /\ RaiseAt("build", "KeyError")
                /\ heap' = <<df0>>
                /\ env' = [env EXCEPT !["df"] = 1]
                /\ UNCHANGED base
           ELSE LET df1 == SetColumn(df0, "Subtag", Categorical(Column(df0, "Subtag")))
                IN  /\ heap' = <<df1>>
                    /\ env' = [env EXCEPT !["df"] = 1]
                    /\ base' = df1
                    /\ pc' = "sidebar"
                    /\ UNCHANGED <<err, raised_at>>
    /\ UNCHANGED <<data, records, widgets, summary_df, range_y, rmse_max, rmse_min,
                   convVars>>

\* Lines 58-68: the algorithm selectbox, the jobsite multiselect, algo_df.
SelectAlgorithmAndTags ==
    /\ pc = "sidebar"
    /\ LET df == Frame("df")
           algorithm_options ==
               <<s_ALL>> \o SortedStrings(Unique(Strings(Column(df, "Algorithm"))))
           tag_options == SortedStrings(Unique(Strings(Column(df, "Tag"))))
       IN  \E selected_algorithm \in SeqToSet(algorithm_options),
              selected_tags \in SUBSET SeqToSet(tag_options) :
             LET a1 == New(heap, Mask(df, IsIn(Column(df, "Tag"), selected_tags)))
                 a2 == IF selected_algorithm # s_ALL
                       THEN New(a1.heap,
                                Mask(a1.heap[a1.ref],
                                     Equals(Column(a1.heap[a1.ref], "Algorithm"),
                                            Str(selected_algorithm))))
                       ELSE a1
             IN  /\ heap' = a2.heap
                 /\ env' = [env EXCEPT !["algo_df"] = a2.ref]
                 /\ widgets' = [widgets EXCEPT
                                  !.algorithm_options = algorithm_options,
                                  !.selected_algorithm = selected_algorithm,
                                  !.tag_options = tag_options,
                                  !.selected_tags = selected_tags]
    /\ pc' = "subtags"
    /\ UNCHANGED <<data, err, raised_at, records, base, summary_df, range_y,
                   rmse_max, rmse_min, convVars>>

\* Lines 71-75: the subtag multiselect, filtered.
SelectSubtags ==
    /\ pc = "subtags"
    /\ LET algo_df == Frame("algo_df")
           available_subtags == Unique(Strings(DropNA(Column(algo_df, "Subtag"))))
       IN  \E selected_subtags \in SUBSET SeqToSet(available_subtags) :
             LET f == New(heap, Mask(algo_df,
                                     IsIn(Column(algo_df, "Subtag"), selected_subtags)))
             IN  /\ heap' = f.heap
                 /\ env' = [env EXCEPT !["filtered"] = f.ref]
                 /\ widgets' = [widgets EXCEPT
                                  !.available_subtags = available_subtags,
                                  !.selected_subtags = selected_subtags]
    /\ pc' = "search"
    /\ UNCHANGED <<data, err, raised_at, records, base, summary_df, range_y,
                   rmse_max, rmse_min, convVars>>

\* Lines 78-80: the video search box.
SearchVideo ==
    /\ pc = "search"
    /\ \E video_search \in Searches :
         /\ widgets' = [widgets EXCEPT !.video_search = video_search]
         /\ IF video_search = s_empty
            THEN pc' = "summary" /\ UNCHANGED <<heap, env, err, raised_at>>
            ELSE IF ~RegexCompiles(video_search)
            THEN RaiseAt("search", "re.error") /\ UNCHANGED <<heap, env>>
            ELSE LET f == New(heap, Mask(Frame("filtered"),
                                         StrContains(Column(Frame("filtered"), "Video"),
                                                     video_search)))
                 IN  /\ heap' = f.heap
                     /\ env' = [env EXCEPT !["filtered"] = f.ref]
                     /\ pc' = "summary"
                     /\ UNCHANGED <<err, raised_at>>
    /\ UNCHANGED <<data, records, base, summary_df, range_y, rmse_max, rmse_min,
                   convVars>>

\* Line 84.
Summarise ==
    /\ pc = "summary"
    /\ summary_df' = Summary(Frame("filtered").rows)
    /\ pc' = "charts"
    /\ UNCHANGED <<data, err, raised_at, records, heap, env, base, widgets, range_y,
                   rmse_max, rmse_min, convVars>>

\* The position of a subtag in subtag_order, from 0: the category code, and
\* the value of subtag_order_map.
SubtagCode(v) ==
    IF IsNA(v) THEN NaN
    ELSE Num((CHOOSE i \in 1..Len(subtag_order) : subtag_order[i] = v.s) - 1)

\* Series.map(subtag_order_map)
SubtagCodes(series) == [i \in 1..Len(series) |-> SubtagCode(series[i])]

\* filtered.sort_values(by="Subtag"): by category code, NaN last.
SortBySubtag(frame) ==
    [cols |-> frame.cols,
     rows |-> SortRows(frame.rows,
                       [i \in 1..Len(frame.rows) |->
                          <<SubtagCodes(Column(frame, "Subtag"))[i]>>])]

\* filtered[metric].max() * 1.1 if not filtered.empty else None
RangeTop(frame, metric) ==
    IF frame.rows = <<>> THEN Null
    ELSE LET m == MaxOf(frame.rows, metric)
         IN  IF IsNA(m) THEN NaN ELSE Rat(m.n * 11, 10)

\* Lines 106-137: every tab sorts filtered anew; the last ordered_df stays bound.
Charts ==
    /\ pc = "charts"
    /\ LET o == New(heap, SortBySubtag(Frame("filtered")))
       IN  /\ heap' = o.heap
           /\ env' = [env EXCEPT !["ordered_df"] = o.ref]
    /\ range_y' = [m \in SeqToSet(StatColumns) |-> RangeTop(Frame("filtered"), m)]
    /\ pc' = "table"
    /\ UNCHANGED <<data, err, raised_at, records, base, widgets, summary_df,
                   rmse_max, rmse_min, convVars>>

\* Lines 153-159.
get_preview_image(pdf_file, dir) ==
    IF (pdf_file.s \o s_png) \in dir
    THEN Str(<<"p","l","o","t","s","_","p","r","e","v","i","e","w","s","/">>
                \o pdf_file.s \o s_png)
    ELSE Null

\* Series.apply(get_preview_image)
PreviewImages(series, dir) ==
    [i \in 1..Len(series) |-> get_preview_image(series[i], dir)]

\* Lines 141-165: rmse_max, rmse_min, sorted_df, display_df.
MetricsTable ==
    /\ pc = "table"
    /\ rmse_max' = MaxOf(Frame("filtered").rows, "RMSE")
    /\ rmse_min' = MinOf(Frame("filtered").rows, "RMSE")
    /\ \E dir \in PreviewDirs :
         LET c1 == Copy(heap, env["filtered"])
             h2 == Assign(c1.heap, c1.ref, "SubtagOrder",
                          SubtagCodes(Column(c1.heap[c1.ref], "Subtag")))
             s3 == New(h2, Drop(SortValues(h2[c1.ref],
                                           <<"Algorithm", "Tag", "Video", "SubtagOrder">>),
                                "SubtagOrder"))
             h4 == Assign(s3.heap, s3.ref, "Preview",
                          PreviewImages(Column(s3.heap[s3.ref], "Plot PDF"), dir))
             c5 == Copy(h4, s3.ref)
             d6 == New(c5.heap, Drop(c5.heap[c5.ref], "Plot PDF"))
         IN  /\ heap' = d6.heap
             /\ env' = [env EXCEPT !["sorted_df"] = s3.ref, !["display_df"] = d6.ref]
    /\ pc' = "previews"
    /\ UNCHANGED <<data, err, raised_at, records, base, widgets, summary_df, range_y,
                   convVars>>

\* Lines 186-192: the preview search box, preview_df.
PreviewTable ==
    /\ pc = "previews"
    /\ \E search_text \in PreviewSearches :
         /\ widgets' = [widgets EXCEPT !.search_text = search_text]
         /\ LET c == Copy(heap, env["display_df"])
            IN  IF search_text = s_empty
                THEN /\ heap' = c.heap
                     /\ env' = [env EXCEPT !["preview_df"] = c.ref]
                     /\ pc' = "done"
                     /\ UNCHANGED <<err, raised_at>>
                ELSE IF ~RegexCompiles(search_text)
                THEN /\ RaiseAt("previews", "re.error")
                     /\ heap' = c.heap
                     /\ env' = [env EXCEPT !["preview_df"] = c.ref]
                ELSE LET f == New(c.heap,
                                  Mask(c.heap[c.ref],
                                       Either(StrContains(Column(c.heap[c.ref], "Algorithm"),
                                                          search_text),
                                              StrContains(Column(c.heap[c.ref], "Video"),
                                                          search_text))))
                     IN  /\ heap' = f.heap
                         /\ env' = [env EXCEPT !["preview_df"] = f.ref]
                         /\ pc' = "done"
                         /\ UNCHANGED <<err, raised_at>>
    /\ UNCHANGED <<data, records, base, summary_df, range_y, rmse_max, rmse_min,
                   convVars>>

\* The next interaction: the script starts over on the same file.
Rerun ==
    /\ pc \in {"done", "raised"}
    /\ pc' = "extract" /\ err' = "none" /\ raised_at' = "none"
    /\ records' = <<>> /\ heap' = <<>> /\ env' = [v \in EnvVars |-> 0]
    /\ base' = NoFrame /\ widgets' = NoWidgets /\ summary_df' = <<>>
    /\ range_y' = NoRange /\ rmse_max' = NaN /\ rmse_min' = NaN
    /\ UNCHANGED <<data, convVars>>

Next ==
    \/ Extract
    \/ BuildTable
    \/ SelectAlgorithmAndTags
    \/ SelectSubtags
    \/ SearchVideo
    \/ Summarise
    \/ Charts
    \/ MetricsTable
    \/ PreviewTable
    \/ Rerun

Spec == Init /\ [][Next]_vars

---------------------------------------------------------------------------
(* convert_pdfs_to_pngs.py *)

s_pdf == <<".", "p", "d", "f">>

\* The names plots/ may hold: p1.pdf, p2.pdf, ... and one file that is no PDF.
PdfName(i) == <<"p", AsciiOrder[5 + i]>> \o s_pdf
PdfNames == { PdfName(i) : i \in 1..MaxPdfs }
OtherNames == { <<"n", ".", "t", "x", "t">> }

\* What converting a file does: "ok" (a page comes back and is saved), "empty"
\* (convert_from_path returns no image), "raises" (convert_from_path or save
\* raises an Exception).
Outcomes == {"ok", "empty", "raises"}

\* What plots_previews/ may hold before the run.
OldPreviews == { {}, {PdfName(1) \o s_png}, {<<"o", "l", "d">> \o s_png} }

HasSuffix(s, suffix) ==
    /\ Len(s) >= Len(suffix)
    /\ SubSeq(s, Len(s) - Len(suffix) + 1, Len(s)) = suffix

\* pdf_dir.glob("*.pdf")
Glob(dir) == { f \in DOMAIN dir : HasSuffix(f, s_pdf) }

\* pdf_file.name + ".png"
OutputName(f) == f \o s_png

ConvInit ==
    /\ \E names \in SUBSET (PdfNames \cup OtherNames) : plots \in [names -> Outcomes]
    /\ previews0 \in OldPreviews
    /\ previews = previews0
    /\ cpc = "start"
    /\ pending = {}
    /\ attempts = [f \in DOMAIN plots |-> 0]
    /\ log = <<>>
    /\ appIdle

\* Lines 6-11: the output directory, the files the loop will visit.
ConvStart ==
    /\ cpc = "start"
    /\ pending' = Glob(plots)
    /\ cpc' = "loop"
    /\ UNCHANGED <<plots, attempts, previews, previews0, log, appVars>>

\* Lines 14-17: the first page is saved under the file's name plus ".png".
OnImages(f) ==
    /\ previews' = previews \cup {OutputName(f)}
    /\ log' = Append(log, <<"Converted", f>>)
    /\ cpc' = "loop"

\* Lines 18-19.
OnNoImages(f) ==
    /\ log' = Append(log, <<"No images extracted", f>>)
    /\ cpc' = "loop"
    /\ UNCHANGED previews

\* Without the except clause the exception ends the script.
OnExceptionUncaught(f) ==
    /\ cpc' = "aborted"
    /\ UNCHANGED <<previews, log>>

\* Lines 20-21: the exception is caught and printed.
OnException(f) ==
    /\ log' = Append(log, <<"Failed to convert", f>>)
    /\ cpc' = "loop"
    /\ UNCHANGED previews

\* Lines 11-21: one iteration, on whichever file glob yields next.
ConvertNext ==
    /\ cpc = "loop"
    /\ \E f \in pending :
         /\ pending' = pending \ {f}
         /\ attempts' = [attempts EXCEPT ![f] = @ + 1]
         /\ CASE plots[f] = "ok" -> OnImages(f)
              [] plots[f] = "empty" -> OnNoImages(f)
              [] plots[f] = "raises" -> OnException(f)
    /\ UNCHANGED <<plots, previews0, appVars>>

\* glob is exhausted: the script ends.
ConvFinish ==
    /\ cpc = "loop"
    /\ pending = {}
    /\ cpc' = "done"
    /\ UNCHANGED <<plots, pending, attempts, previews, previews0, log, appVars>>

ConvNext ==
    \/ ConvStart
    \/ ConvertNext
    \/ ConvFinish

\* The script runs on its own from its first line to its last.
ConvSpec == ConvInit /\ [][ConvNext]_vars /\ WF_vars(ConvNext)

---------------------------------------------------------------------------
(* Properties *)

Extracted == pc # "extract" /\ raised_at # "extract"
Built == pc \in {"sidebar", "subtags", "search", "summary", "charts", "table",
                 "previews", "done"}
Filtered == pc \in {"summary", "charts", "table", "previews", "done"}
Summarised == pc \in {"charts", "table", "previews", "done"}
Charted == pc \in {"table", "previews", "done"}

LowerStr(s) == [i \in 1..Len(s) |-> Lower(s[i])]

\* The algorithm field of an entry the loop got past, "" when it has none.
AlgorithmOf(entry) == Get(entry, "algorithm", Str(s_empty)).s

IsGroundTruthEntry(entry) ==
    /\ IsObj(entry)
    /\ IsStr(Get(entry, "algorithm", Str(s_empty)))
    /\ Contains(AlgorithmOf(entry), s_groundTruth)

\* C1: no entry whose algorithm field contains "groundTruth" appears in the
\* records, in any table or view derived from them, in the algorithm filter
\* options or in the per-algorithm summary.
GroundTruthNeverShown ==
    /\ \A i \in 1..Len(records) :
         ~Contains(records[i]["Algorithm"].s, s_groundTruth)
    /\ \A v \in EnvVars : \A i \in 1..Len(Frame(v).rows) :
         ~Contains(Frame(v).rows[i]["Algorithm"].s, s_groundTruth)
    /\ \A i \in 1..Len(widgets.algorithm_options) :
         ~Contains(widgets.algorithm_options[i], s_groundTruth)
    /\ \A i \in 1..Len(summary_df) :
         ~Contains(summary_df[i]["Algorithm"].s, s_groundTruth)
    /\ Extracted =>
         Len(records) <= Cardinality({ i \in 1..Len(data) : ~IsGroundTruthEntry(data[i]) })

GroundTruthWitness ==
    /\ pc = "done"
    /\ \E i \in 1..Len(data) : IsGroundTruthEntry(data[i])
    /\ Frame("filtered").rows # <<>>
    /\ summary_df # <<>>

\* The entries extraction keeps, once it has run without raising: the
\* algorithm is no ground truth and the relative path holds a '/'.
KeepsEntry(entry) ==
    /\ ~Contains(AlgorithmOf(entry), s_groundTruth)
    /\ "/" \in SeqToSet(Get(entry, "algorithm_relative_folder", Str(s_empty)).s)

KeptIndices ==
    SelectSeq([i \in 1..Len(data) |-> i], LAMBDA i : KeepsEntry(data[i]))

\* t and u are the first two '/'-separated segments of s.
FirstTwoSegments(s, t, u) ==
    /\ "/" \notin SeqToSet(t)
    /\ "/" \notin SeqToSet(u)
    /\ Len(s) >= Len(t) + 1 + Len(u)
    /\ SubSeq(s, 1, Len(t) + 1) = t \o <<"/">>
    /\ SubSeq(s, Len(t) + 2, Len(t) + 1 + Len(u)) = u
    /\ Len(s) > Len(t) + 1 + Len(u) => s[Len(t) + Len(u) + 2] = "/"

\* b is what follows the last '/' of s, or s when it holds none.
IsBasename(s, b) ==
    /\ "/" \notin SeqToSet(b)
    /\ HasSuffix(s, b)
    /\ Len(s) > Len(b) => s[Len(s) - Len(b)] = "/"

RecordMatches(rec, entry) ==
    /\ rec["Algorithm"] = Str(AlgorithmOf(entry))
    /\ FirstTwoSegments(entry.f["algorithm_relative_folder"].s,
                        rec["Tag"].s, rec["Subtag"].s)
    /\ rec["Video"] = (IF "folder" \in DOMAIN entry.f THEN entry.f["folder"]
                       ELSE Str(s_empty))
    /\ IsBasename(IF "plot_path" \in DOMAIN entry.f THEN entry.f["plot_path"].s
                  ELSE s_empty,
                  rec["Plot PDF"].s)
    /\ \A j \in 1..Len(StatFields) :
         rec[StatColumns[j]] = (IF StatFields[j] \in DOMAIN entry.f
                                THEN entry.f[StatFields[j]] ELSE Null)

\* C2: the loop that runs to its end has emitted, in input order, exactly one
\* record for each entry that is no ground truth and whose relative path has at
\* least two segments, with the first two segments as Tag and Subtag, the
\* folder as Video, the basename of plot_path as Plot PDF and each statistic
\* the entry's value, or None (never zero) when the entry has none; every
\* other entry is left out.  (That the loop runs to its end is C6.)
ExtractionContract ==
    Extracted =>
        /\ Len(records) = Len(KeptIndices)
        /\ \A j \in 1..Len(records) : RecordMatches(records[j], data[KeptIndices[j]])

ExtractionWitness ==
    /\ pc = "build"
    /\ Len(data) = 2
    /\ Len(records) = 1
    /\ records[1]["Mean"] = Null
    /\ records[1]["RMSE"] = Num(1)
    /\ "/" \notin SeqToSet(Get(data[1], "algorithm_relative_folder", Str(s_empty)).s)
    /\ ~IsGroundTruthEntry(data[1])

\* Video holds the search string, whatever the case of either.
HoldsIgnoringCase(v, search) == IsStr(v) /\ Contains(LowerStr(v.s), LowerStr(search))

MeetsFilters(r) ==
    /\ r["Tag"].s \in widgets.selected_tags
    /\ widgets.selected_algorithm = s_ALL \/ r["Algorithm"].s = widgets.selected_algorithm
    /\ ~IsNA(r["Subtag"]) /\ r["Subtag"].s \in widgets.selected_subtags
    /\ HoldsIgnoringCase(r["Video"], widgets.video_search)

\* C3: the filtered view is exactly the rows of the table whose Tag is among
\* the selected tags, whose Algorithm is the selected one (or the selection is
\* "All algorithms"), whose Subtag is among the selected subtags and whose
\* Video holds the search string, case ignored.
FilteredIsIntersection ==
    Filtered =>
        SeqToSet(Frame("filtered").rows) = { r \in SeqToSet(base.rows) : MeetsFilters(r) }

FullSelection ==
    /\ widgets.selected_algorithm = s_ALL
    /\ widgets.selected_tags = SeqToSet(widgets.tag_options)
    /\ widgets.selected_subtags = SeqToSet(widgets.available_subtags)
    /\ widgets.video_search = s_empty

SameRecord(row, rec) ==
    \A c \in {"Algorithm", "Tag", "Video", "Plot PDF"} : row[c] = rec[c]

\* C4: with every tag and every offered subtag selected, "All algorithms" and
\* no search, every record of the extraction is a row of the filtered view.
FullSelectionKeepsAll ==
    (Filtered /\ FullSelection) =>
        /\ Len(Frame("filtered").rows) = Len(records)
        /\ \A i \in 1..Len(records) : SameRecord(Frame("filtered").rows[i], records[i])

\* The sum of the RMSE of the rows at the indices S.
RECURSIVE SumAt(_, _)
SumAt(rows, S) ==
    IF S = {} THEN 0
    ELSE LET i == CHOOSE i \in S : TRUE
         IN  rows[i]["RMSE"].n + SumAt(rows, S \ {i})

\* The mean RMSE of an algorithm's rows, the rows without RMSE left out.
IsMeanOf(m, rows, algorithm) ==
    LET S == { i \in 1..Len(rows) :
                 rows[i]["Algorithm"] = algorithm /\ ~IsNA(rows[i]["RMSE"]) }
    IN  IF S = {} THEN m = NaN
        ELSE m = Rat(SumAt(rows, S), Cardinality(S))

\* C5: the summary has one row per algorithm of the filtered view, holding the
\* mean of the algorithm's RMSE values that are not null; the rows are in
\* ascending order of the mean; every permutation of the filtered rows gives
\* the same summary.
SummaryIsSortedMeans ==
    Summarised =>
        LET rows == Frame("filtered").rows
            names == { rows[i]["Algorithm"] : i \in 1..Len(rows) }
        IN  /\ { summary_df[i]["Algorithm"] : i \in 1..Len(summary_df) } = names
            /\ Len(summary_df) = Cardinality(names)
            /\ \A i \in 1..Len(summary_df) :
                 IsMeanOf(summary_df[i]["RMSE"], rows, summary_df[i]["Algorithm"])
            /\ \A i, j \in 1..Len(summary_df) :
                 i < j => ~ValueLess(summary_df[j]["RMSE"], summary_df[i]["RMSE"])
            /\ \A q \in Permutations(1..Len(rows)) :
                 Summary([i \in 1..Len(rows) |-> rows[q[i]]]) = summary_df

SummaryWitness ==
    /\ pc = "done"
    /\ Len(summary_df) = 1
    /\ Len(Frame("filtered").rows) = 2
    /\ \E i \in 1..2 : IsNA(Frame("filtered").rows[i]["RMSE"])
    /\ summary_df[1]["RMSE"] = Rat(1, 1)

\* C6: record extraction raises no error, whatever the entries of the array.
ExtractionNeverRaises == raised_at # "extract"

\* C7: with no record or no row left by the filters, the table construction,
\* the per-algorithm mean, the chart range and the RMSE extremes do not raise.
EmptyResultTolerated ==
    ~ /\ pc = "raised"
      /\ raised_at \in {"build", "summary", "charts", "table"}
      /\ records = <<>> \/ Frame("filtered").rows = <<>>

\* C9: once built, the base table keeps its columns, rows and values through
\* every filter, aggregation, sort and preview step; the views are derived
\* values, and the columns added to them (SubtagOrder, Preview) appear neither
\* in the base table nor in algo_df nor in the filtered view.
BaseTableUnaltered ==
    Built =>
        /\ Frame("df") = base
        /\ \A v \in {"df", "algo_df", "filtered"} :
             env[v] # 0 =>
               /\ Frame(v).cols = base.cols
               /\ SeqToSet(Frame(v).rows) \subseteq SeqToSet(base.rows)
               /\ \A i \in 1..Len(Frame(v).rows) :
                    DOMAIN Frame(v).rows[i] = SeqToSet(base.cols)

BaseTableWitness ==
    /\ pc = "done"
    /\ Frame("filtered").rows # <<>>
    /\ Len(Frame("filtered").rows) < Len(Frame("df").rows)
    /\ "Preview" \in SeqToSet(Frame("sorted_df").cols)
    /\ \E i \in 1..Len(Frame("sorted_df").rows) :
         ~IsNull(Frame("sorted_df").rows[i]["Preview"])

\* The rows of a view are in subtag order: a recognized subtag never after a
\* later one of subtag_order, an unrecognized one after every recognized one.
InSubtagOrder(rows) ==
    \A i, j \in 1..Len(rows) :
        i < j => ~ValueLess(SubtagCode(rows[j]["Subtag"]), SubtagCode(rows[i]["Subtag"]))

\* C10: the rows sorted by Subtag for the charts are in the order of
\* subtag_order, and a record whose secondary tag is outside subtag_order is
\* in the view, after the records with a recognized one.
SubtagOrderedViewHoldsAll ==
    (Charted /\ widgets.video_search = s_empty) =>
        /\ InSubtagOrder(Frame("ordered_df").rows)
        /\ \A i \in 1..Len(base.rows) :
             ( /\ IsNA(base.rows[i]["Subtag"])
               /\ base.rows[i]["Tag"].s \in widgets.selected_tags
               /\ \/ widgets.selected_algorithm = s_ALL
                  \/ base.rows[i]["Algorithm"].s = widgets.selected_algorithm )
             => base.rows[i] \in SeqToSet(Frame("ordered_df").rows)

\* The files the converter writes: one per PDF that converts.
ExpectedPreviews ==
    previews0 \cup { OutputName(f) : f \in { g \in Glob(plots) : plots[g] = "ok" } }

ConvDone ==
    /\ cpc = "done"
    /\ \A f \in DOMAIN plots : attempts[f] = (IF f \in Glob(plots) THEN 1 ELSE 0)
    /\ previews = ExpectedPreviews

\* C8: the converter attempts every PDF of plots/ once and no more, whatever
\* the order of the files and whichever of them fail, and reaches the end of
\* the batch with exactly the previews of the files that convert written, as
\* <name>.png.
ConverterCompletes ==
    /\ [](\A f \in DOMAIN plots : attempts[f] <= 1)
    /\ <>[]ConvDone

ConverterWitness ==
    /\ cpc = "done"
    /\ \E f, g, h \in Glob(plots) :
         plots[f] = "raises" /\ plots[g] = "ok" /\ plots[h] = "empty"
    /\ Len(log) = 3
    /\ log[1][1] = "Failed to convert"
    /\ previews # previews0

===========================================================================
